---- MODULE Spec2Model ----
(***************************************************************************)
(* ADK Agent Gateway (main.py).  One POST /run_agent request resolves the *)
(* agent in AGENT_REGISTRY, creates a session on the agent server, runs   *)
(* the agent under that session and extracts the final text answer from   *)
(* the list of events the agent server returns.                           *)
(*                                                                         *)
(* Spec      : concurrent /run_agent requests against a nondeterministic   *)
(*             agent server and a wall clock; the server answers /run with *)
(*             one of a few sample event lists.                            *)
(* SpecParse : one /run_agent request whose /run call is answered with     *)
(*             any event list of a bounded JSON domain.                    *)
(***************************************************************************)
EXTENDS Integers, Sequences, FiniteSets, TLC

\* ------------------------------------------------------------------ bounds
MaxReqs == 2
MaxTicks == 2
TicksPerSecond == 2
MaxEvents == 2
MaxParts == 2

\* ------------------------------------------------------- JSON / Python values
\* A decoded JSON value is tagged with its Python type.
Null == [t |-> "null"]
Str(s) == [t |-> "str", v |-> s]
List(s) == [t |-> "list", v |-> s]
Dict(f) == [t |-> "dict", v |-> f]

\* isinstance(x, dict)
IsDict(x) == x.t = "dict"

\* Python truth value of a decoded JSON value.
Truthy(x) ==
    CASE x.t = "null" -> FALSE
      [] x.t = "str" -> x.v # ""
      [] x.t = "list" -> x.v # <<>>
      [] x.t = "dict" -> DOMAIN x.v # {}

\* key in d
HasKey(d, k) == k \in DOMAIN d.v

\* d.get(k): the value, or None when the key is absent.
Get(d, k) == IF HasKey(d, k) THEN d.v[k] ELSE Null

\* ------------------------------------------------------------ event domain
Texts == {"A", "B"}
Roles == {"model", "user"}

TextPart(s) == Dict([text |-> Str(s)])
PartValues == {Str("x"), Dict([functionCall |-> Str("f")])} \cup {TextPart(s) : s \in Texts}

\* Parts after the first are never read: they carry either text or none.
LaterPartValues == {Dict([functionCall |-> Str("f")])} \cup {TextPart(s) : s \in Texts}

\* Lists of at most MaxParts parts.
PartLists ==
    {<<>>} \cup
    UNION {{<<p>> \o rest : p \in PartValues, rest \in [1..k -> LaterPartValues]} :
               k \in 0..(MaxParts - 1)}

\* What an event's "content" can be: null, a string, an empty object, or an
\* object with a role and with "parts" missing, null or a list.
ContentValues ==
    {Null, Str("x"), Dict(<<>>)}
    \cup {Dict([role |-> Str(ro)]) : ro \in Roles}
    \cup {Dict([role |-> Str(ro), parts |-> Null]) : ro \in Roles}
    \cup {Dict([role |-> Str(ro), parts |-> List(ps)]) : ro \in Roles, ps \in PartLists}

\* An event is an object with or without "content".
Events == {Dict(<<>>)} \cup {Dict([content |-> c]) : c \in ContentValues}

\* ------------------------------------------------------- run_agent_session
Sentinel == "Agent did not provide a final text response."

\* ModelContent without the comparison of the role.
ModelContentAnyRole(content) ==
    /\ Truthy(content)
    /\ IsDict(content)
    /\ HasKey(content, "parts")

\* The outer condition of the loop body.
ModelContent(content) ==
    /\ Truthy(content)
    /\ IsDict(content)
    /\ Get(content, "role") = Str("model")
    /\ HasKey(content, "parts")

\* The inner condition of the loop body.
FirstPartText(parts) ==
    /\ Truthy(parts)
    /\ IsDict(parts.v[1])
    /\ HasKey(parts.v[1], "text")

\* LoopBody that takes the text of the first part that has one.
LoopBodyAnyPart(final_response, event) ==
    LET content == Get(event, "content")
    IN  IF ModelContent(content)
        THEN LET parts == Get(content, "parts")
                 withText == IF Truthy(parts)
                             THEN {j \in 1..Len(parts.v) :
                                      IsDict(parts.v[j]) /\ HasKey(parts.v[j], "text")}
                             ELSE {}
             IN  IF withText # {}
                 THEN parts.v[CHOOSE j \in withText : \A k \in withText : j <= k].v["text"].v
                 ELSE final_response
        ELSE final_response

\* LoopBody that stops overwriting after the first eligible event.
LoopBodyKeepFirst(final_response, event) ==
    LET content == Get(event, "content")
    IN  IF ModelContent(content) /\ final_response = Sentinel
        THEN LET parts == Get(content, "parts")
             IN  IF FirstPartText(parts)
                 THEN parts.v[1].v["text"].v
                 ELSE final_response
        ELSE final_response

\* One iteration of `for event in events`: the value of final_response after it.
LoopBody(final_response, event) ==
    LET content == Get(event, "content")
    IN  IF ModelContent(content)
        THEN LET parts == Get(content, "parts")
             IN  IF FirstPartText(parts)
                 THEN parts.v[1].v["text"].v
                 ELSE final_response
        ELSE final_response

RECURSIVE ParseFrom(_, _, _)
ParseFrom(events, i, final_response) ==
    IF i > Len(events)
    THEN final_response
    ELSE ParseFrom(events, i + 1, LoopBody(final_response, events[i]))

\* The whole parsing logic: the final answer of an event list.
ParseEvents(events) == ParseFrom(events, 1, Sentinel)

\* AgentResponse(response=..., session_id=..., agent_name=..., status="success")
AgentResponse(response_text, session_id, agent_name) ==
    [kind |-> "ok", status_code |-> 200, response |-> response_text,
     session_id |-> session_id, agent_name |-> agent_name, status |-> "success"]

NoResponse == [kind |-> "none"]

\* ------------------------------------------------------------- the registry
AGENT_REGISTRY ==
    [greeting_agent |-> "http://localhost:8000",
     jarvis_agent |-> "http://localhost:8000",
     calc_agent |-> "http://localhost:8000"]

\* request.agent_name not in AGENT_REGISTRY
NotRegistered(agent_name) == agent_name \notin DOMAIN AGENT_REGISTRY

\* ---------------------------------------------------------- error responses
\* NotFoundError raised as a plain error.
NotFoundAs500(agent_name) ==
    [kind |-> "NotFound", status_code |-> 500,
     detail |-> "Agent '" \o agent_name \o "' not found"]

\* raise HTTPException(status_code=404, detail="Agent '...' not found")
NotFoundError(agent_name) ==
    [kind |-> "NotFound", status_code |-> 404,
     detail |-> "Agent '" \o agent_name \o "' not found"]

\* UpstreamError that reports every upstream failure as 502.
UpstreamErrorAs502(status_code, text) ==
    [kind |-> "UpstreamError", status_code |-> 502,
     detail |-> "Error from ADK server: " \o text]

\* UpstreamError that reports every upstream failure as 404.
UpstreamErrorAs404(status_code, text) ==
    [kind |-> "UpstreamError", status_code |-> 404,
     detail |-> "Error from ADK server: " \o text]

\* except httpx.HTTPStatusError: the upstream status and body are passed on.
UpstreamError(status_code, text) ==
    [kind |-> "UpstreamError", status_code |-> status_code,
     detail |-> "Error from ADK server: " \o text]

\* except Exception: status 500, detail str(e).
InternalError(message) ==
    [kind |-> "InternalError", status_code |-> 500, detail |-> message]

\* str(e) of the exceptions the two outbound calls can raise besides
\* HTTPStatusError.
TimeoutMessage == "timed out"
JSONDecodeMessage == "Expecting value: line 1 column 1 (char 0)"

\* ------------------------------------------------------------ outbound calls
Pending == [kind |-> "pending"]
TimedOut == [kind |-> "timeout"]
\* An upstream HTTP response: status, raw body, and the decoded body
\* (InvalidJSON when the body is not JSON).
InvalidJSON == [t |-> "invalid"]
HttpResponse(status_code, text, json) ==
    [kind |-> "response", status_code |-> status_code, text |-> text, json |-> json]

\* response.raise_for_status() raises HTTPStatusError
RaisesForStatus(status_code) == ~(200 <= status_code /\ status_code <= 299)

\* int(time.time()) at clock reading `ticks`
IntTime(ticks) == ticks \div TicksPerSecond

\* f"session-{int(time.time())}"
NewSessionId(ticks) == "session-" \o ToString(IntTime(ticks))

CreateSessionUrl(agent_url, app_name, user_id, session_id) ==
    agent_url \o "/apps/" \o app_name \o "/users/" \o user_id \o "/sessions/" \o session_id

\* The POST of create_session.
CreateSessionCall(agent_url, user_id, app_name, session_id) ==
    [call |-> "create_session",
     url |-> CreateSessionUrl(agent_url, app_name, user_id, session_id),
     json |-> Dict(<<>>),
     timeout |-> 10,
     result |-> Pending]

\* RunCall with user_id and session_id swapped.
RunCallSwappedIds(agent_url, message, user_id, app_name, session_id) ==
    [call |-> "run",
     url |-> agent_url \o "/run",
     json |-> Dict([app_name |-> Str(app_name),
                    user_id |-> Str(session_id),
                    session_id |-> Str(user_id),
                    new_message |-> Dict([role |-> Str("user"),
                                          parts |-> List(<<TextPart(message)>>)])]),
     timeout |-> 60,
     result |-> Pending]

\* The POST of run_agent_session.
RunCall(agent_url, message, user_id, app_name, session_id) ==
    [call |-> "run",
     url |-> agent_url \o "/run",
     json |-> Dict([app_name |-> Str(app_name),
                    user_id |-> Str(user_id),
                    session_id |-> Str(session_id),
                    new_message |-> Dict([role |-> Str("user"),
                                          parts |-> List(<<TextPart(message)>>)])]),
     timeout |-> 60,
     result |-> Pending]

\* SessionIdFor that reuses the session id of the caller when there is one.
SessionIdForCaller(request, ticks) ==
    IF request.session_id # Null THEN request.session_id.v ELSE NewSessionId(ticks)

\* The session id create_session generates for `request` at clock reading
\* `ticks`: request.session_id is not passed to create_session.
SessionIdFor(request, ticks) == NewSessionId(ticks)

\* ------------------------------------------------------------ request inputs
NoRequest == [agent_name |-> "", message |-> "", user_id |-> "", session_id |-> Null]

AgentNames == {"greeting_agent", "unknown_agent"}
\* The optional session id of the caller; "session-1" is also an id the
\* gateway can generate itself.
CallerSessionIds == {Null, Str("session-1")}

Requests ==
    [agent_name : AgentNames, message : {"hi"}, user_id : {"u1"},
     session_id : CallerSessionIds]

UpstreamStatuses == {200, 404, 500}
UpstreamErrorTexts == {"upstream failure"}

UserEvent(s) == Dict([content |-> Dict([role |-> Str("user"), parts |-> List(<<TextPart(s)>>)])])
ModelEvent(ps) == Dict([content |-> Dict([role |-> Str("model"), parts |-> List(ps)])])

\* Event lists the agent server answers /run with under Spec.
SampleEventLists ==
    {<<>>,
     <<UserEvent("hi"), ModelEvent(<<TextPart("A")>>), ModelEvent(<<TextPart("B")>>)>>,
     <<ModelEvent(<<>>)>>,
     <<ModelEvent(<<TextPart("A"), TextPart("B")>>), ModelEvent(<<Dict([functionCall |-> Str("f")]), TextPart("B")>>)>>}

Reqs == 1..MaxReqs

\* --------------------------------------------------------------------- state
VARIABLES
    now,        \* the wall clock (time.time()), in ticks
    pc,         \* where each request's run_agent coroutine is suspended
    request,    \* the AgentRequest of each request
    session_id, \* the session id generated for each request ("" before)
    gen_tick,   \* the clock reading at which it was generated (-1 before)
    outbound,   \* the outbound calls each request has issued, in order
    response    \* what each request returned to its caller

vars == <<now, pc, request, session_id, gen_tick, outbound, response>>

Init ==
    /\ now = 0
    /\ pc = [r \in Reqs |-> "idle"]
    /\ request = [r \in Reqs |-> NoRequest]
    /\ session_id = [r \in Reqs |-> ""]
    /\ gen_tick = [r \in Reqs |-> -1]
    /\ outbound = [r \in Reqs |-> <<>>]
    /\ response = [r \in Reqs |-> NoResponse]

\* The wall clock advances.
Tick ==
    /\ now < MaxTicks
    /\ now' = now + 1
    /\ UNCHANGED <<pc, request, session_id, gen_tick, outbound, response>>

\* run_agent, agent not in the registry: 404.
RunAgentNotFound(r, req) ==
    /\ pc[r] = "idle"
    /\ NotRegistered(req.agent_name)
    /\ request' = [request EXCEPT ![r] = req]
    /\ response' = [response EXCEPT ![r] = NotFoundError(req.agent_name)]
    /\ pc' = [pc EXCEPT ![r] = "done"]
    /\ UNCHANGED <<now, session_id, gen_tick, outbound>>

\* run_agent, agent registered: create_session generates the id and posts.
RunAgentStart(r, req) ==
    /\ pc[r] = "idle"
    /\ ~NotRegistered(req.agent_name)
    /\ LET agent_url == AGENT_REGISTRY[req.agent_name]
           sid == SessionIdFor(req, now)
       IN  /\ request' = [request EXCEPT ![r] = req]
           /\ session_id' = [session_id EXCEPT ![r] = sid]
           /\ gen_tick' = [gen_tick EXCEPT ![r] = now]
           /\ outbound' = [outbound EXCEPT ![r] =
                  <<CreateSessionCall(agent_url, req.user_id, req.agent_name, sid)>>]
    /\ pc' = [pc EXCEPT ![r] = "create_session"]
    /\ UNCHANGED <<now, response>>

\* The create-session call is answered with a success status:
\* create_session returns, run_agent_session posts to /run.
CreateSessionOk(r, status_code) ==
    /\ pc[r] = "create_session"
    /\ ~RaisesForStatus(status_code)
    /\ LET req == request[r]
           agent_url == AGENT_REGISTRY[req.agent_name]
       IN  outbound' = [outbound EXCEPT ![r] =
               <<[@[1] EXCEPT !.result = HttpResponse(status_code, "{}", Dict(<<>>))],
                 RunCall(agent_url, req.message, req.user_id, req.agent_name, session_id[r])>>]
    /\ pc' = [pc EXCEPT ![r] = "run"]
    /\ UNCHANGED <<now, request, session_id, gen_tick, response>>

\* The create-session call is answered with a non-success status.
CreateSessionError(r, status_code, text) ==
    /\ pc[r] = "create_session"
    /\ RaisesForStatus(status_code)
    /\ outbound' = [outbound EXCEPT ![r][1].result = HttpResponse(status_code, text, InvalidJSON)]
    /\ response' = [response EXCEPT ![r] = UpstreamError(status_code, text)]
    /\ pc' = [pc EXCEPT ![r] = "done"]
    /\ UNCHANGED <<now, request, session_id, gen_tick>>

\* The create-session call is not answered within its timeout.
CreateSessionTimeout(r) ==
    /\ pc[r] = "create_session"
    /\ outbound' = [outbound EXCEPT ![r][1].result = TimedOut]
    /\ response' = [response EXCEPT ![r] = InternalError(TimeoutMessage)]
    /\ pc' = [pc EXCEPT ![r] = "done"]
    /\ UNCHANGED <<now, request, session_id, gen_tick>>

\* The run call is answered with a success status and a JSON list of events.
RunOk(r, status_code, events) ==
    /\ pc[r] = "run"
    /\ ~RaisesForStatus(status_code)
    /\ outbound' = [outbound EXCEPT ![r][2].result = HttpResponse(status_code, "[...]", List(events))]
    /\ response' = [response EXCEPT ![r] =
           AgentResponse(ParseEvents(events), session_id[r], request[r].agent_name)]
    /\ pc' = [pc EXCEPT ![r] = "done"]
    /\ UNCHANGED <<now, request, session_id, gen_tick>>

\* The run call is answered with a success status and a body that is not JSON.
RunBadJSON(r, status_code) ==
    /\ pc[r] = "run"
    /\ ~RaisesForStatus(status_code)
    /\ outbound' = [outbound EXCEPT ![r][2].result = HttpResponse(status_code, "<html>", InvalidJSON)]
    /\ response' = [response EXCEPT ![r] = InternalError(JSONDecodeMessage)]
    /\ pc' = [pc EXCEPT ![r] = "done"]
    /\ UNCHANGED <<now, request, session_id, gen_tick>>

\* The run call is answered with a non-success status.
RunError(r, status_code, text) ==
    /\ pc[r] = "run"
    /\ RaisesForStatus(status_code)
    /\ outbound' = [outbound EXCEPT ![r][2].result = HttpResponse(status_code, text, InvalidJSON)]
    /\ response' = [response EXCEPT ![r] = UpstreamError(status_code, text)]
    /\ pc' = [pc EXCEPT ![r] = "done"]
    /\ UNCHANGED <<now, request, session_id, gen_tick>>

\* The run call is not answered within its timeout.
RunTimeout(r) ==
    /\ pc[r] = "run"
    /\ outbound' = [outbound EXCEPT ![r][2].result = TimedOut]
    /\ response' = [response EXCEPT ![r] = InternalError(TimeoutMessage)]
    /\ pc' = [pc EXCEPT ![r] = "done"]
    /\ UNCHANGED <<now, request, session_id, gen_tick>>

Next ==
    \/ Tick
    \/ \E r \in Reqs, req \in Requests : RunAgentNotFound(r, req)
    \/ \E r \in Reqs, req \in Requests : RunAgentStart(r, req)
    \/ \E r \in Reqs, s \in UpstreamStatuses : CreateSessionOk(r, s)
    \/ \E r \in Reqs, s \in UpstreamStatuses, t \in UpstreamErrorTexts : CreateSessionError(r, s, t)
    \/ \E r \in Reqs : CreateSessionTimeout(r)
    \/ \E r \in Reqs, s \in UpstreamStatuses, evs \in SampleEventLists : RunOk(r, s, evs)
    \/ \E r \in Reqs, s \in UpstreamStatuses : RunBadJSON(r, s)
    \/ \E r \in Reqs, s \in UpstreamStatuses, t \in UpstreamErrorTexts : RunError(r, s, t)
    \/ \E r \in Reqs : RunTimeout(r)

Spec == Init /\ [][Next]_vars

\* One request for a registered agent, both calls answered with 200, the run
\* call with any event list of the bounded domain.
ParseRequest == [agent_name |-> "greeting_agent", message |-> "hi", user_id |-> "u1", session_id |-> Null]

\* The run call is answered with 200 and a list of at most MaxEvents events.
RunOkAnyEvents(r) ==
    /\ pc[r] = "run"
    /\ \E k \in 0..MaxEvents : \E evs \in [1..k -> Events] : RunOk(r, 200, evs)

NextParse ==
    \/ RunAgentStart(1, ParseRequest)
    \/ CreateSessionOk(1, 200)
    \/ RunOkAnyEvents(1)

SpecParse == Init /\ [][NextParse]_vars

\* ===================================================================== claims
\* Vocabulary of the claims, written from their wording.

\* The request has issued the run call and it was answered with a success
\* status and a JSON list of events.
RunAnswered(r) ==
    /\ Len(outbound[r]) = 2
    /\ outbound[r][2].result.kind = "response"
    /\ outbound[r][2].result.status_code \in 200..299
    /\ outbound[r][2].result.json.t = "list"

ReceivedEvents(r) == outbound[r][2].result.json.v

\* The event has content with role "model" and a parts list.
HasModelParts(e) ==
    /\ "content" \in DOMAIN e.v
    /\ e.v["content"].t = "dict"
    /\ "role" \in DOMAIN e.v["content"].v
    /\ e.v["content"].v["role"] = Str("model")
    /\ "parts" \in DOMAIN e.v["content"].v
    /\ e.v["content"].v["parts"].t = "list"

PartsOf(e) == e.v["content"].v["parts"].v

CarriesText(p) == p.t = "dict" /\ "text" \in DOMAIN p.v

\* Eligible: content present, role "model", parts present and non-empty, first
\* part an object with a text field.
Eligible(e) ==
    /\ HasModelParts(e)
    /\ PartsOf(e) # <<>>
    /\ CarriesText(PartsOf(e)[1])

FirstText(e) == PartsOf(e)[1].v["text"].v

EligibleAt(evs) == {i \in 1..Len(evs) : Eligible(evs[i])}

Max(S) == CHOOSE m \in S : \A n \in S : n <= m

\* The final answer the specification prescribes for an event list.
ExpectedAnswer(evs) ==
    IF EligibleAt(evs) = {} THEN Sentinel ELSE FirstText(evs[Max(EligibleAt(evs))])

Front(evs) == SubSeq(evs, 1, Len(evs) - 1)

\* C1: when the event list of a successful run call has an eligible event,
\* the final answer is the first-part text of the last eligible event.
C1_LastEligibleWins ==
    \A r \in Reqs :
        (RunAnswered(r) /\ EligibleAt(ReceivedEvents(r)) # {}) =>
            /\ response[r].kind = "ok"
            /\ response[r].response =
                   FirstText(ReceivedEvents(r)[Max(EligibleAt(ReceivedEvents(r)))])

\* Two eligible events with different texts; the answer is the second's.
C1_Witness ==
    \E r \in Reqs :
        /\ RunAnswered(r)
        /\ Len(ReceivedEvents(r)) = 2
        /\ EligibleAt(ReceivedEvents(r)) = {1, 2}
        /\ FirstText(ReceivedEvents(r)[1]) # FirstText(ReceivedEvents(r)[2])
        /\ response[r].kind = "ok"
        /\ response[r].response = FirstText(ReceivedEvents(r)[2])

\* C2: when no event is eligible, the request succeeds and its final answer
\* is the sentinel string.
C2_SentinelWhenNoneEligible ==
    \A r \in Reqs :
        (RunAnswered(r) /\ EligibleAt(ReceivedEvents(r)) = {}) =>
            /\ response[r].kind = "ok"
            /\ response[r].status = "success"
            /\ response[r].response = Sentinel

\* Two ineligible events: a user event carrying text, and a model event
\* whose first part is no object; the answer is the sentinel.
C2_Witness ==
    \E r \in Reqs :
        /\ RunAnswered(r)
        /\ Len(ReceivedEvents(r)) = 2
        /\ EligibleAt(ReceivedEvents(r)) = {}
        /\ ReceivedEvents(r)[1] = UserEvent("A")
        /\ HasModelParts(ReceivedEvents(r)[2])
        /\ PartsOf(ReceivedEvents(r)[2]) # <<>>
        /\ PartsOf(ReceivedEvents(r)[2])[1].t # "dict"
        /\ response[r].kind = "ok"
        /\ response[r].response = Sentinel

\* The last event is a model event with a second or later part that
\* carries text.
LastHasLaterText(evs) ==
    /\ evs # <<>>
    /\ HasModelParts(evs[Len(evs)])
    /\ \E j \in 2..Len(PartsOf(evs[Len(evs)])) : CarriesText(PartsOf(evs[Len(evs)])[j])

\* C3: only the first part of an event is inspected.  When the last event
\* has text in a later part, the answer is its first part's text if the
\* first part has a text field, and otherwise the answer of the events
\* before it.
C3_OnlyFirstPart ==
    \A r \in Reqs :
        (RunAnswered(r) /\ LastHasLaterText(ReceivedEvents(r))) =>
            LET evs == ReceivedEvents(r)
                last == evs[Len(evs)]
            IN  /\ response[r].kind = "ok"
                /\ response[r].response =
                       IF CarriesText(PartsOf(last)[1])
                       THEN FirstText(last)
                       ELSE ExpectedAnswer(Front(evs))

\* An eligible event, then a model event whose first part has no text field
\* and whose second part has another text: the first event's text is kept.
C3_Witness ==
    \E r \in Reqs :
        /\ RunAnswered(r)
        /\ Len(ReceivedEvents(r)) = 2
        /\ LastHasLaterText(ReceivedEvents(r))
        /\ ~CarriesText(PartsOf(ReceivedEvents(r)[2])[1])
        /\ Eligible(ReceivedEvents(r)[1])
        /\ \E j \in 2..Len(PartsOf(ReceivedEvents(r)[2])) :
               /\ CarriesText(PartsOf(ReceivedEvents(r)[2])[j])
               /\ PartsOf(ReceivedEvents(r)[2])[j].v["text"].v # FirstText(ReceivedEvents(r)[1])
        /\ response[r].kind = "ok"
        /\ response[r].response = FirstText(ReceivedEvents(r)[1])

RegistryKeys == {"greeting_agent", "jarvis_agent", "calc_agent"}

Received(r) == pc[r] # "idle"

\* C4: a request for a service name that is no key of the registry fails
\* with 404 NotFound and issues no outbound call.
C4_NotFoundNoCalls ==
    \A r \in Reqs :
        (Received(r) /\ request[r].agent_name \notin RegistryKeys) =>
            /\ pc[r] = "done"
            /\ response[r].kind = "NotFound"
            /\ response[r].status_code = 404
            /\ outbound[r] = <<>>

C4_Witness ==
    \E r \in Reqs :
        /\ Received(r)
        /\ request[r].agent_name = "unknown_agent"
        /\ response[r].status_code = 404
        /\ outbound[r] = <<>>

\* The create-session call of the request was answered with a non-success
\* status.
CreateFailed(r) ==
    /\ Len(outbound[r]) >= 1
    /\ outbound[r][1].call = "create_session"
    /\ outbound[r][1].result.kind = "response"
    /\ outbound[r][1].result.status_code \notin 200..299

\* C5: when the create-session call returns a non-success status S, the
\* request fails with UpstreamError carrying S and the upstream body, and
\* the run call is not issued.
C5_CreateFailurePassedThrough ==
    \A r \in Reqs :
        CreateFailed(r) =>
            /\ pc[r] = "done"
            /\ response[r].kind = "UpstreamError"
            /\ response[r].status_code = outbound[r][1].result.status_code
            /\ response[r].detail = "Error from ADK server: " \o outbound[r][1].result.text
            /\ Len(outbound[r]) = 1

C5_Witness ==
    \E r \in Reqs :
        /\ CreateFailed(r)
        /\ request[r].agent_name \in RegistryKeys
        /\ outbound[r][1].result.status_code = 404
        /\ response[r].status_code = 404
        /\ Len(outbound[r]) = 1

\* An outbound call of the request was not answered within its time bound.
CallTimedOut(r) == \E i \in 1..Len(outbound[r]) : outbound[r][i].result.kind = "timeout"

\* C6: a request whose create-session or run call times out fails with
\* UpstreamTimeout, a category other than NotFound, UpstreamError and
\* InternalError, and the timed-out call is its last outbound call.
C6_TimeoutIsOwnCategory ==
    \A r \in Reqs :
        CallTimedOut(r) =>
            /\ pc[r] = "done"
            /\ response[r].kind \notin {"none", "ok", "NotFound", "UpstreamError", "InternalError"}
            /\ outbound[r][Len(outbound[r])].result.kind = "timeout"

Generated(r) == session_id[r] # ""

\* C7: no two distinct requests are given the same generated SessionID.
C7_UniqueSessionIds ==
    \A r1, r2 \in Reqs :
        (r1 # r2 /\ Generated(r1) /\ Generated(r2)) => session_id[r1] # session_id[r2]

\* The session id a run call carries in its body.
RunSessionId(c) == c.json.v["session_id"].v

CreateUrlWith(r, sid) ==
    "http://localhost:8000/apps/" \o request[r].agent_name \o "/users/"
        \o request[r].user_id \o "/sessions/" \o sid

\* C8: a request issues at most one create-session call and then at most
\* one run call, the run call only after the create-session call succeeded,
\* and the run call and the success response carry the session id of the
\* create-session call.
C8_CallOrder ==
    \A r \in Reqs :
        /\ Len(outbound[r]) <= 2
        /\ Len(outbound[r]) >= 1 => outbound[r][1].call = "create_session"
        /\ Len(outbound[r]) = 2 =>
              /\ outbound[r][2].call = "run"
              /\ outbound[r][1].result.kind = "response"
              /\ outbound[r][1].result.status_code \in 200..299
              /\ outbound[r][1].url = CreateUrlWith(r, RunSessionId(outbound[r][2]))
        /\ response[r].kind = "ok" =>
              /\ Len(outbound[r]) = 2
              /\ response[r].session_id = RunSessionId(outbound[r][2])

C8_Witness ==
    \E r \in Reqs :
        /\ response[r].kind = "ok"
        /\ Len(outbound[r]) = 2
        /\ outbound[r][1].url = CreateUrlWith(r, response[r].session_id)
        /\ RunSessionId(outbound[r][2]) = response[r].session_id

\* C9: whatever session id the caller supplies, a request for a registered
\* service issues a create-session call with the generated SessionID, and
\* the run call and the response carry the generated SessionID.
C9_CallerSessionIdIgnored ==
    \A r \in Reqs :
        (Received(r) /\ request[r].agent_name \in RegistryKeys) =>
            /\ Len(outbound[r]) >= 1
            /\ outbound[r][1].url = CreateUrlWith(r, NewSessionId(gen_tick[r]))
            /\ Len(outbound[r]) = 2 => RunSessionId(outbound[r][2]) = NewSessionId(gen_tick[r])
            /\ response[r].kind = "ok" => response[r].session_id = NewSessionId(gen_tick[r])

\* The caller supplied "session-1"; the gateway generated and returned
\* "session-0".
C9_Witness ==
    \E r \in Reqs :
        /\ request[r].session_id = Str("session-1")
        /\ response[r].kind = "ok"
        /\ response[r].session_id = "session-0"
        /\ RunSessionId(outbound[r][2]) = "session-0"

Responded(r) == response[r].kind # "none"

\* C10 as stated: a request ends with status 404 only if its service name
\* is absent from the registry.
C10_404OnlyUnregistered ==
    \A r \in Reqs :
        (Responded(r) /\ response[r].status_code = 404) =>
            request[r].agent_name \notin RegistryKeys

\* C10 (amended): a request ends with status 404 only if its service name is
\* absent from the registry or the target answered its create-session or
\* run call with status 404.
C10_404UnregisteredOrUpstream ==
    \A r \in Reqs :
        (Responded(r) /\ response[r].status_code = 404) =>
            \/ request[r].agent_name \notin RegistryKeys
            \/ \E i \in 1..Len(outbound[r]) :
                   /\ outbound[r][i].result.kind = "response"
                   /\ outbound[r][i].result.status_code = 404

\* A registered service whose run call the target answered with 404.
C10_Witness ==
    \E r \in Reqs :
        /\ request[r].agent_name \in RegistryKeys
        /\ Len(outbound[r]) = 2
        /\ outbound[r][2].result.kind = "response"
        /\ outbound[r][2].result.status_code = 404
        /\ response[r].status_code = 404
====
